---------------------------- MODULE Spec2Model ----------------------------
(***************************************************************************)
(* memory_logger: an in-memory sink for the `log` facade, in two flavors.  *)
(*   blocking      (src/src/blocking.rs)     : Mutex<String> buffer        *)
(*   asynchronous  (src/src/asynchronous.rs) : flume unbounded channel     *)
(* Strings are sequences of one-character strings.                         *)
(***************************************************************************)
EXTENDS Integers, Sequences, FiniteSets, TLC

(***************************************************************************)
(* Bounds of the model.                                                    *)
(***************************************************************************)
\* threads of the host program
NThreads == 2
\* calls (setup, log, read, dump, clear) started in one behaviour
MaxOps == 4
\* calls of MemoryLogger::setup in one behaviour
MaxSetups == 2
\* lines the queue holds at most where log calls are not counted (SpecALive)
MaxQueue == 2

Threads == 1..NThreads
Instances == 1..MaxSetups

(***************************************************************************)
(* log::Level and log::LevelFilter (lower value = more severe).            *)
(***************************************************************************)
Off == 0
Error == 1
Warn == 2
Info == 3
Debug == 4
Trace == 5

\* <Level as Display>: the name record.level().to_string() yields
LevelName(l) ==
    CASE l = Error -> <<"E","R","R","O","R">>
      [] l = Warn  -> <<"W","A","R","N">>
      [] l = Info  -> <<"I","N","F","O">>
      [] l = Debug -> <<"D","E","B","U","G">>
      [] l = Trace -> <<"T","R","A","C","E">>

\* Level::to_level_filter: the filter of the same rank
to_level_filter(l) == l

(***************************************************************************)
(* Inputs.                                                                 *)
(***************************************************************************)
AppDb == <<"a","p","p",":",":","d","b">>
Other == <<"o","t","h","e","r">>
ModM == <<"m">>

\* Option<T> is a sequence of zero or one element
None == <<>>
Some(x) == <<x>>

\* anchored literal patterns: the Regex "^app::" is held as its literal
RegexApp == <<"a","p","p",":",":">>
Regexes == {RegexApp}

SetupLevels == {Warn, Trace}

\* log::Level
Levels == {Error, Warn, Info, Debug, Trace}

\* every record over the levels, three targets and both kinds of module path
AllRecords ==
    [level : Levels, target : {AppDb, Other, <<>>},
     module_path : {None, Some(ModM)}, args : {<<"x">>}]

\* records the facade may hand over: level, target, module_path, args
Records ==
    { [level |-> Warn,  target |-> AppDb, module_path |-> None,       args |-> <<"x">>],
      [level |-> Debug, target |-> AppDb, module_path |-> None,       args |-> <<"x">>],
      [level |-> Error, target |-> <<>>,  module_path |-> Some(ModM), args |-> <<"y">>] }

\* the io::Error a failing writer returns
IoErrors == {"BrokenPipe"}

\* where a failing writer may stop in the n bytes write_all hands it
FailPoints(n) == {0, n - 1}

(***************************************************************************)
(* Pure helpers.                                                           *)
(***************************************************************************)
IsPrefix(p, s) == Len(p) <= Len(s) /\ SubSeq(s, 1, Len(p)) = p

RECURSIVE Flatten(_)
Flatten(ss) == IF ss = <<>> THEN <<>> ELSE Head(ss) \o Flatten(Tail(ss))

RECURSIVE CountNl(_)
CountNl(s) ==
    IF s = <<>> THEN 0
    ELSE (IF Head(s) = "\n" THEN 1 ELSE 0) + CountNl(Tail(s))

\* Regex::is_match for an anchored literal
is_match(re, s) == IsPrefix(re, s)

\* faulty variant: the module path is preferred to the record's target
EffectiveTarget_ModuleFirst(r) ==
    IF r.module_path # None THEN r.module_path[1]
    ELSE IF r.target = <<>> THEN <<"?">> ELSE r.target

\* the effective target of Logger::log
EffectiveTarget(r) ==
    IF r.target = <<>>
    THEN (IF r.module_path = None THEN <<"?">> ELSE r.module_path[1])
    ELSE r.target

\* the post-padding `{:<5}` writes after the level name, one char per write
Padding(s) == [k \in 1..(IF Len(s) < 5 THEN 5 - Len(s) ELSE 0) |-> <<" ">>]

\* the write_str calls fmt::Write receives for "[{}] {:<5} | {}"
FormatPieces(r) ==
    << <<"[">>, EffectiveTarget(r), <<"]", " ">>, LevelName(r.level) >>
    \o Padding(LevelName(r.level))
    \o << <<" ", "|", " ">>, r.args >>

\* format!("[{}] {:<5} | {}", ...): the line without its line break
Format(r) == Flatten(FormatPieces(r))

\* writeln!: the pieces of the line, then the line break
WritelnPieces(r) == FormatPieces(r) \o << <<"\n">> >>


(***************************************************************************)
(* State.                                                                  *)
(***************************************************************************)
VARIABLES
    flavor,     \* the cargo feature that selects the module: lib.rs
    feature,    \* whether the `target` feature is compiled in
    LOGGER,     \* the facade's write-once logger slot: 0 = none installed
    MAX_LEVEL,  \* the facade's global maximum level filter
    nsetup,     \* instances created (and leaked) by setup so far
    handle,     \* the instance setup returned Ok for: 0 = none yet
    setupRes,   \* per instance: "none", "Ok" or "Err" (SetLoggerError)
    setupAt,    \* history, per instance: Len(delivered) when its setup ran
    level,      \* per instance: Logger.level
    target,     \* per instance: Logger.target, an Option of the pattern
    buffer,     \* per instance: the String inside the Mutex (blocking)
    locked,     \* per instance: whether the Mutex is held (blocking)
    chan,       \* per instance: the lines queued in the channel (asynchronous)
    pc,         \* per thread: where its current call stands
    inst,       \* per thread: the instance its current call acts on
    rec,        \* per thread: the record of its current log call
    todo,       \* per thread: the pieces writeln! has still to write
    guard,      \* per thread: the instance whose BufferLockGuard it holds, or 0
    view,       \* per thread: the contents its guard showed when taken
    wr,         \* per thread: the writer of its current dump: "ok", "logs" or the error it fails with
    ret,        \* what the call that returned last returned (dump: "Ok" or the error)
    nops,       \* calls started so far
    delivered,  \* history: records handed to the installed sink, in arrival order
    mark,       \* history: Len(delivered) at the last clear of the buffer
    appended,   \* history: every character ever appended to the handle's buffer
    dumpedOk,   \* history: what the dumps that returned Ok wrote, concatenated
    nWritten,   \* history: line breaks handed to any dump's writer
    lastOut,    \* history: what the latest dump handed to its writer so far
    drains,     \* history: drains completed since the last accepted line (at most 2)
    nclear,     \* history: clear() calls completed
    sent,       \* history: every entry sent into the channel, in order
    yielded,    \* history: every entry pulled out of the channel, in order
    obs         \* history: lines an iterator yielded or a dump wrote whole

vars == << flavor, feature, LOGGER, MAX_LEVEL, nsetup, handle, setupRes,
           setupAt, level, target, buffer, locked, chan, pc, inst, rec, todo,
           guard, view, wr, ret, nops, delivered, mark, appended, dumpedOk,
           nWritten, lastOut, drains, nclear, sent, yielded, obs >>

facadeVars == << LOGGER, MAX_LEVEL, nsetup, handle, setupRes, setupAt, level, target >>
histB == << mark, appended, dumpedOk, nWritten, lastOut, nclear >>
histA == << sent, yielded, obs >>
buildVars == << flavor, feature >>

NoRecord == [level |-> Off, target |-> <<>>, module_path |-> None, args |-> <<>>]

Init ==
    /\ flavor \in {"blocking", "asynchronous"}
    /\ feature \in BOOLEAN
    /\ LOGGER = 0
    /\ MAX_LEVEL = Off
    /\ nsetup = 0
    /\ handle = 0
    /\ setupRes = [i \in Instances |-> "none"]
    /\ setupAt = [i \in Instances |-> 0]
    /\ level = [i \in Instances |-> Off]
    /\ target = [i \in Instances |-> None]
    /\ buffer = [i \in Instances |-> <<>>]
    /\ locked = [i \in Instances |-> FALSE]
    /\ chan = [i \in Instances |-> <<>>]
    /\ pc = [t \in Threads |-> "idle"]
    /\ inst = [t \in Threads |-> 0]
    /\ rec = [t \in Threads |-> NoRecord]
    /\ todo = [t \in Threads |-> <<>>]
    /\ guard = [t \in Threads |-> 0]
    /\ view = [t \in Threads |-> <<>>]
    /\ wr = [t \in Threads |-> "none"]
    /\ ret = "none"
    /\ nops = 0
    /\ delivered = <<>>
    /\ mark = 0
    /\ appended = <<>>
    /\ dumpedOk = <<>>
    /\ nWritten = 0
    /\ lastOut = <<>>
    /\ drains = 0
    /\ nclear = 0
    /\ sent = <<>>
    /\ yielded = <<>>
    /\ obs = <<>>

(***************************************************************************)
(* The facade (crate `log`) as the code uses it.                           *)
(***************************************************************************)
\* faulty variant: set_logger replaces an installed logger
set_logger_overwrites == TRUE

\* log::set_logger succeeds only while no logger is installed
set_logger_ok == LOGGER = 0

\* faulty variant: the target pattern is not looked at
enabled_NoTarget(i, r) == r.level <= level[i]

\* faulty variant: the level comparison is left out
enabled_NoLevel(i, r) == ~(target[i] # None /\ ~is_match(target[i][1], r.target))

\* Log::enabled of Logger: the target pattern first, then the level
enabled(i, r) ==
    IF target[i] # None /\ ~is_match(target[i][1], r.target)
    THEN FALSE
    ELSE r.level <= level[i]

\* faulty variant: the max level is set although the registration failed
MaxLevelOnErr_Set(old, lvl) == to_level_filter(lvl)

\* the facade's max level when set_logger failed: `?` returns before
\* log::set_max_level is reached
MaxLevelOnErr(old, lvl) == old

\* MemoryLogger::setup: leak a new instance, register it, set the max level
Setup(t) ==
    /\ pc[t] = "idle"
    /\ nops < MaxOps
    /\ nsetup < MaxSetups
    /\ \E lvl \in SetupLevels, tg \in (IF feature THEN {Some(re) : re \in Regexes} ELSE {None}) :
         LET i == nsetup + 1 IN
         /\ nsetup' = i
         /\ setupAt' = [setupAt EXCEPT ![i] = Len(delivered)]
         /\ level' = [level EXCEPT ![i] = lvl]
         /\ target' = [target EXCEPT ![i] = tg]
         /\ IF set_logger_ok
            THEN /\ LOGGER' = i
                 /\ MAX_LEVEL' = to_level_filter(lvl)
                 /\ handle' = i
                 /\ setupRes' = [setupRes EXCEPT ![i] = "Ok"]
            ELSE /\ setupRes' = [setupRes EXCEPT ![i] = "Err"]
                 /\ MAX_LEVEL' = MaxLevelOnErr(MAX_LEVEL, lvl)
                 /\ UNCHANGED << LOGGER, handle >>
    /\ nops' = nops + 1
    /\ UNCHANGED << buildVars, buffer, locked, chan, pc, inst, rec, todo, guard,
                    view, wr, ret, delivered, drains, histB, histA >>

(***************************************************************************)
(* Blocking flavor.  Every call that needs the buffer first stands in a    *)
(* *_lock state until Mutex::lock returns.  std's Mutex is not re-entrant: *)
(* a lock() by the thread that holds the guard does not return, so such a  *)
(* thread stays in its *_lock state.  A record counts as delivered when    *)
(* the filter drops it or, if retained, when its log call gets the lock.   *)
(***************************************************************************)
\* faulty variant: the lock is granted although it is held
CanLock_Always(i) == TRUE

\* Mutex::lock returns only when the mutex is free
CanLock(i) == ~locked[i]

\* the MutexGuard is taken
Lock(l, i) == [l EXCEPT ![i] = TRUE]

\* faulty variant: the guard is forgotten, the mutex stays locked
Unlock_Forgotten(l, i) == l

\* the MutexGuard is dropped
Unlock(l, i) == [l EXCEPT ![i] = FALSE]

\* faulty variant: the lock is asked for before the filter is consulted
NeedsLock_Always(i, r) == TRUE

\* Logger::log asks for the lock only inside `if self.enabled(..)`
NeedsLock(i, r) == enabled(i, r)

\* a log call reaches Logger::log of the installed instance; a record the
\* filter rejects is dropped at once, an accepted one goes on to the lock
LogB(t) ==
    /\ flavor = "blocking"
    /\ pc[t] = "idle"
    /\ nops < MaxOps
    /\ LOGGER # 0
    /\ nops' = nops + 1
    /\ \E r \in Records, macro \in BOOLEAN :
         IF macro /\ r.level > MAX_LEVEL
         THEN UNCHANGED << pc, inst, rec, delivered >>
         ELSE IF NeedsLock(LOGGER, r)
              THEN /\ pc' = [pc EXCEPT ![t] = "log_lock"]
                   /\ inst' = [inst EXCEPT ![t] = LOGGER]
                   /\ rec' = [rec EXCEPT ![t] = r]
                   /\ UNCHANGED delivered
              ELSE /\ delivered' = Append(delivered, r)
                   /\ UNCHANGED << pc, inst, rec >>
    /\ UNCHANGED << buildVars, facadeVars, buffer, locked, chan, todo, guard,
                    view, wr, ret, drains, histB, histA >>

\* Logger::log takes the lock: `let mut buffer = self.lock();`
LogLock(t) ==
    /\ pc[t] = "log_lock"
    /\ CanLock(inst[t])
    /\ locked' = Lock(locked, inst[t])
    /\ pc' = [pc EXCEPT ![t] = "log_write"]
    /\ todo' = [todo EXCEPT ![t] = WritelnPieces(rec[t])]
    /\ delivered' = Append(delivered, rec[t])
    /\ UNCHANGED << buildVars, facadeVars, buffer, chan, inst, rec, guard, view,
                    wr, ret, nops, drains, histB, histA >>

\* writeln! appends the next piece; after the last one the guard is dropped
\* and log returns (to the writer that called it, when a dump's writer did)
LogWrite(t) ==
    /\ pc[t] = "log_write"
    /\ todo[t] # <<>>
    /\ buffer' = [buffer EXCEPT ![inst[t]] = @ \o Head(todo[t])]
    /\ appended' = IF inst[t] = handle THEN appended \o Head(todo[t]) ELSE appended
    /\ todo' = [todo EXCEPT ![t] = Tail(@)]
    /\ drains' = 0
    /\ IF Len(todo[t]) = 1
       THEN /\ locked' = Unlock(locked, inst[t])
            /\ rec' = [rec EXCEPT ![t] = NoRecord]
            /\ IF wr[t] = "logs"
               THEN /\ pc' = [pc EXCEPT ![t] = "dump_write"]
                    /\ wr' = [wr EXCEPT ![t] = "ok"]
                    /\ inst' = [inst EXCEPT ![t] = handle]
               ELSE /\ pc' = [pc EXCEPT ![t] = "idle"]
                    /\ inst' = [inst EXCEPT ![t] = 0]
                    /\ UNCHANGED wr
       ELSE UNCHANGED << locked, pc, inst, rec, wr >>
    /\ UNCHANGED << buildVars, facadeVars, chan, guard, view, ret, nops, delivered, mark, dumpedOk, nWritten, lastOut,
                    nclear, histA >>

\* MemoryLogger::read is called
ReadB(t) ==
    /\ flavor = "blocking"
    /\ pc[t] = "idle"
    /\ nops < MaxOps
    /\ handle # 0
    /\ nops' = nops + 1
    /\ pc' = [pc EXCEPT ![t] = "read_lock"]
    /\ inst' = [inst EXCEPT ![t] = handle]
    /\ UNCHANGED << buildVars, facadeVars, buffer, locked, chan, rec, todo, guard,
                    view, wr, ret, delivered, drains, histB, histA >>

\* faulty variant: the view takes the text out of the buffer
AfterRead_Takes(b) == <<>>

\* the buffer once a view of it exists: Deref lends the String, as it is
AfterRead(b) == b

\* read returns the guard: the lock stays held, the view derefs to the buffer
ReadLock(t) ==
    /\ pc[t] = "read_lock"
    /\ CanLock(inst[t])
    /\ locked' = Lock(locked, inst[t])
    /\ guard' = [guard EXCEPT ![t] = inst[t]]
    /\ view' = [view EXCEPT ![t] = buffer[inst[t]]]
    /\ buffer' = [buffer EXCEPT ![inst[t]] = AfterRead(@)]
    /\ pc' = [pc EXCEPT ![t] = "idle"]
    /\ inst' = [inst EXCEPT ![t] = 0]
    /\ UNCHANGED << buildVars, facadeVars, chan, rec, todo, wr, ret, nops, delivered, drains, histB, histA >>

\* the BufferLockGuard is dropped: the lock is released
DropView(t) ==
    /\ pc[t] = "idle"
    /\ guard[t] # 0
    /\ locked' = Unlock(locked, guard[t])
    /\ guard' = [guard EXCEPT ![t] = 0]
    /\ view' = [view EXCEPT ![t] = <<>>]
    /\ UNCHANGED << buildVars, facadeVars, buffer, chan, pc, inst, rec, todo,
                    wr, ret, nops, delivered, drains, histB, histA >>


\* faulty variant: the buffer is cleared although the write failed
DumpErrBuffer_Cleared(b) == <<>>

\* the buffer a dump leaves behind when write_all failed: `?` returns before clear
DumpErrBuffer(b) == b

\* faulty variant: the buffer keeps its contents
Cleared_Not(b) == b

\* String::clear
Cleared(b) == <<>>

\* faulty variant: the writer's error is swallowed
Propagate_Swallows(e) == "Ok"

\* the error `?` hands back to dump's caller
Propagate(e) == e

\* MemoryLogger::dump is called with a writer
DumpB(t) ==
    /\ flavor = "blocking"
    /\ pc[t] = "idle"
    /\ nops < MaxOps
    /\ handle # 0
    /\ nops' = nops + 1
    /\ pc' = [pc EXCEPT ![t] = "dump_lock"]
    /\ inst' = [inst EXCEPT ![t] = handle]
    /\ \E w \in {"ok", "logs"} \cup IoErrors : wr' = [wr EXCEPT ![t] = w]
    /\ UNCHANGED << buildVars, facadeVars, buffer, locked, chan, rec, todo, guard,
                    view, ret, delivered, drains, histB, histA >>

\* dump takes the lock: `let buffer = &mut self.0.lock();`
DumpLock(t) ==
    /\ pc[t] = "dump_lock"
    /\ CanLock(inst[t])
    /\ locked' = Lock(locked, inst[t])
    /\ pc' = [pc EXCEPT ![t] = "dump_write"]
    /\ UNCHANGED << buildVars, facadeVars, buffer, chan, inst, rec, todo, guard,
                    view, wr, ret, nops, delivered, drains, histB, histA >>

\* writer.write_all(buffer.as_bytes())?: all of it, or a proper prefix and the
\* writer's error (an empty buffer is never handed to the writer)
DumpWrite(t) ==
    /\ pc[t] = "dump_write"
    /\ wr[t] # "logs"
    /\ LET b == buffer[inst[t]] IN
       IF wr[t] = "ok" \/ b = <<>>
       THEN /\ lastOut' = b
            /\ nWritten' = nWritten + CountNl(b)
            /\ pc' = [pc EXCEPT ![t] = "dump_clear"]
            /\ UNCHANGED << buffer, locked, ret, wr, inst >>
       ELSE \E k \in FailPoints(Len(b)) :
            /\ lastOut' = SubSeq(b, 1, k)
            /\ nWritten' = nWritten + CountNl(SubSeq(b, 1, k))
            /\ buffer' = [buffer EXCEPT ![inst[t]] = DumpErrBuffer(b)]
            /\ locked' = Unlock(locked, inst[t])
            /\ ret' = Propagate(wr[t])
            /\ wr' = [wr EXCEPT ![t] = "none"]
            /\ inst' = [inst EXCEPT ![t] = 0]
            /\ pc' = [pc EXCEPT ![t] = "idle"]
    /\ UNCHANGED << buildVars, facadeVars, chan, rec, todo, guard, view,
                    nops, delivered, drains, mark, appended, dumpedOk,
                    nclear, histA >>

\* a writer that itself logs: a rejected record is dropped and the write goes
\* on; an accepted one makes Logger::log ask for the lock dump already holds
DumpWriterLogs(t) ==
    /\ pc[t] = "dump_write"
    /\ wr[t] = "logs"
    /\ LOGGER # 0
    /\ \E r \in Records :
         IF NeedsLock(LOGGER, r)
         THEN /\ pc' = [pc EXCEPT ![t] = "log_lock"]
              /\ inst' = [inst EXCEPT ![t] = LOGGER]
              /\ rec' = [rec EXCEPT ![t] = r]
              /\ UNCHANGED << delivered, wr >>
         ELSE /\ delivered' = Append(delivered, r)
              /\ wr' = [wr EXCEPT ![t] = "ok"]
              /\ UNCHANGED << pc, inst, rec >>
    /\ UNCHANGED << buildVars, facadeVars, buffer, locked, chan, todo, guard,
                    view, ret, nops, drains, histB, histA >>

\* buffer.clear(); Ok(()): the guard is dropped on return
DumpClear(t) ==
    /\ pc[t] = "dump_clear"
    /\ buffer' = [buffer EXCEPT ![inst[t]] = Cleared(@)]
    /\ locked' = Unlock(locked, inst[t])
    /\ dumpedOk' = dumpedOk \o lastOut
    /\ mark' = Len(delivered)
    /\ drains' = IF drains < 2 THEN drains + 1 ELSE 2
    /\ ret' = "Ok"
    /\ wr' = [wr EXCEPT ![t] = "none"]
    /\ pc' = [pc EXCEPT ![t] = "idle"]
    /\ inst' = [inst EXCEPT ![t] = 0]
    /\ UNCHANGED << buildVars, facadeVars, chan, rec, todo, guard, view,
                    nops, delivered, appended, nWritten, lastOut, nclear,
                    histA >>

\* MemoryLogger::clear is called
ClearB(t) ==
    /\ flavor = "blocking"
    /\ pc[t] = "idle"
    /\ nops < MaxOps
    /\ handle # 0
    /\ nops' = nops + 1
    /\ pc' = [pc EXCEPT ![t] = "clear_lock"]
    /\ inst' = [inst EXCEPT ![t] = handle]
    /\ UNCHANGED << buildVars, facadeVars, buffer, locked, chan, rec, todo, guard,
                    view, wr, ret, delivered, drains, histB, histA >>

\* self.0.lock().clear(): lock, empty the buffer, drop the temporary guard
ClearLock(t) ==
    /\ pc[t] = "clear_lock"
    /\ CanLock(inst[t])
    /\ buffer' = [buffer EXCEPT ![inst[t]] = Cleared(@)]
    /\ mark' = Len(delivered)
    /\ nclear' = nclear + 1
    /\ pc' = [pc EXCEPT ![t] = "idle"]
    /\ inst' = [inst EXCEPT ![t] = 0]
    /\ UNCHANGED << buildVars, facadeVars, locked, chan, rec, todo, guard,
                    view, wr, ret, nops, delivered, drains, appended,
                    dumpedOk, nWritten, lastOut, histA >>

NextB ==
    \E t \in Threads :
        \/ Setup(t)
        \/ LogB(t)
        \/ LogLock(t)
        \/ LogWrite(t)
        \/ ReadB(t)
        \/ ReadLock(t)
        \/ DropView(t)
        \/ DumpB(t)
        \/ DumpLock(t)
        \/ DumpWrite(t)
        \/ DumpWriterLogs(t)
        \/ DumpClear(t)
        \/ ClearB(t)
        \/ ClearLock(t)

InitB == Init /\ flavor = "blocking"

SpecB == InitB /\ [][NextB]_vars


(***************************************************************************)
(* Asynchronous flavor.  A queued entry carries, beside the line, the      *)
(* producer and a serial number; both are history, the code sees the line. *)
(***************************************************************************)
\* faulty variant: the new line is put at the front of the queue
Send_Front(q, e) == <<e>> \o q

\* faulty variant: a queue of capacity one that turns the line away when full
Send_Full(q, e) == IF Len(q) >= 1 THEN q ELSE Append(q, e)

\* Sender::send on the unbounded channel: enqueue at the back
Send(q, e) == Append(q, e)

\* faulty variant: the last queued line is never handed out
TryRecv_StopsEarly(q) == IF Len(q) <= 1 THEN None ELSE Some(Head(q))

\* Receiver::try_iter().next(): the front of the queue, if any
TryRecv(q) == IF q = <<>> THEN None ELSE Some(Head(q))

\* faulty variant: the line handed out stays in the queue
AfterRecv_Keeps(q) == q

\* the queue after a successful try_recv
AfterRecv(q) == Tail(q)

\* a log call reaches Logger::log: a rejected record is dropped, an accepted
\* one is formatted and sent
LogA(t) ==
    /\ flavor = "asynchronous"
    /\ pc[t] = "idle"
    /\ nops < MaxOps
    /\ LOGGER # 0
    /\ nops' = nops + 1
    /\ \E r \in Records, macro \in BOOLEAN :
         IF macro /\ r.level > MAX_LEVEL
         THEN UNCHANGED << chan, delivered, sent, drains >>
         ELSE /\ delivered' = Append(delivered, r)
              /\ IF enabled(LOGGER, r)
                 THEN LET e == [line |-> Format(r), by |-> t, id |-> Len(sent) + 1] IN
                      /\ chan' = [chan EXCEPT ![LOGGER] = Send(@, e)]
                      /\ sent' = Append(sent, e)
                      /\ drains' = 0
                 ELSE UNCHANGED << chan, sent, drains >>
    /\ UNCHANGED << buildVars, facadeVars, buffer, locked, pc, inst, rec, todo,
                    guard, view, wr, ret, histB, yielded, obs >>

\* MemoryLogger::read returns the lazy iterator: nothing is pulled yet
ReadA(t) ==
    /\ flavor = "asynchronous"
    /\ pc[t] = "idle"
    /\ nops < MaxOps
    /\ handle # 0
    /\ nops' = nops + 1
    /\ pc' = [pc EXCEPT ![t] = "iter"]
    /\ inst' = [inst EXCEPT ![t] = handle]
    /\ UNCHANGED << buildVars, facadeVars, buffer, locked, chan, rec, todo, guard,
                    view, wr, ret, delivered, drains, histB, histA >>

\* one next() on the iterator: the oldest queued line, or None at once
IterNext(t) ==
    /\ pc[t] = "iter"
    /\ LET got == TryRecv(chan[inst[t]]) IN
       IF got # None
       THEN /\ chan' = [chan EXCEPT ![inst[t]] = AfterRecv(@)]
            /\ yielded' = Append(yielded, got[1])
            /\ obs' = Append(obs, got[1].line)
            /\ UNCHANGED << pc, inst, drains >>
       ELSE /\ pc' = [pc EXCEPT ![t] = "idle"]
            /\ inst' = [inst EXCEPT ![t] = 0]
            /\ drains' = IF drains < 2 THEN drains + 1 ELSE 2
            /\ UNCHANGED << chan, yielded, obs >>
    /\ UNCHANGED << buildVars, facadeVars, buffer, locked, rec, todo, guard,
                    view, wr, ret, nops, delivered, histB, sent >>

\* the iterator is dropped before it returned None
IterDrop(t) ==
    /\ pc[t] = "iter"
    /\ pc' = [pc EXCEPT ![t] = "idle"]
    /\ inst' = [inst EXCEPT ![t] = 0]
    /\ UNCHANGED << buildVars, facadeVars, buffer, locked, chan, rec, todo, guard,
                    view, wr, ret, nops, delivered, drains, histB, histA >>

\* MemoryLogger::dump is called with a writer
DumpA(t) ==
    /\ flavor = "asynchronous"
    /\ pc[t] = "idle"
    /\ nops < MaxOps
    /\ handle # 0
    /\ nops' = nops + 1
    /\ pc' = [pc EXCEPT ![t] = "dump_loop"]
    /\ inst' = [inst EXCEPT ![t] = handle]
    /\ lastOut' = <<>>
    /\ \E w \in {"ok"} \cup IoErrors : wr' = [wr EXCEPT ![t] = w]
    /\ UNCHANGED << buildVars, facadeVars, buffer, locked, chan, rec, todo, guard,
                    view, ret, delivered, drains, mark, appended, dumpedOk,
                    nWritten, nclear, histA >>

\* one turn of dump's loop: pull a line; none left: return Ok; else write the
\* line and its line break, or return the writer's error (the line is gone)
DumpLoop(t) ==
    /\ pc[t] = "dump_loop"
    /\ LET got == TryRecv(chan[inst[t]]) IN
       IF got = None
       THEN /\ ret' = "Ok"
            /\ wr' = [wr EXCEPT ![t] = "none"]
            /\ pc' = [pc EXCEPT ![t] = "idle"]
            /\ inst' = [inst EXCEPT ![t] = 0]
            /\ drains' = IF drains < 2 THEN drains + 1 ELSE 2
            /\ UNCHANGED << chan, yielded, obs, lastOut >>
       ELSE /\ chan' = [chan EXCEPT ![inst[t]] = AfterRecv(@)]
            /\ yielded' = Append(yielded, got[1])
            /\ \/ /\ obs' = Append(obs, got[1].line)
                  /\ lastOut' = lastOut \o got[1].line \o <<"\n">>
                  /\ UNCHANGED << ret, wr, pc, inst, drains >>
               \/ /\ wr[t] \in IoErrors
                  /\ \E k \in FailPoints(Len(got[1].line) + 1) :
                       lastOut' = lastOut \o SubSeq(got[1].line, 1, k)
                  /\ ret' = Propagate(wr[t])
                  /\ wr' = [wr EXCEPT ![t] = "none"]
                  /\ pc' = [pc EXCEPT ![t] = "idle"]
                  /\ inst' = [inst EXCEPT ![t] = 0]
                  /\ UNCHANGED << obs, drains >>
    /\ UNCHANGED << buildVars, facadeVars, buffer, locked, rec, todo, guard,
                    view, nops, delivered, mark, appended, dumpedOk,
                    nWritten, nclear, sent >>

NextA ==
    \E t \in Threads :
        \/ Setup(t)
        \/ LogA(t)
        \/ ReadA(t)
        \/ IterNext(t)
        \/ IterDrop(t)
        \/ DumpA(t)
        \/ DumpLoop(t)

InitA == Init /\ flavor = "asynchronous"

SpecA == InitA /\ [][NextA]_vars

(***************************************************************************)
(* Asynchronous flavor, log calls without end.  The same steps of log, of  *)
(* the iterator and of dump's loop, without the history (a queued entry is *)
(* its line alone) and without the count of calls, so that producers may   *)
(* go on for ever in a finite state space; the queue itself has no         *)
(* capacity, the model stops a producer at MaxQueue queued lines.  A       *)
(* running consumer loop keeps running: each thread's pulls are weakly     *)
(* fair.  Nothing forces a producer to log.                                *)
(***************************************************************************)
\* Logger::log: a rejected record is dropped, an accepted one formatted and sent
LogALive(t) ==
    /\ flavor = "asynchronous"
    /\ pc[t] = "idle"
    /\ LOGGER # 0
    /\ Len(chan[LOGGER]) < MaxQueue
    /\ \E r \in Records, macro \in BOOLEAN :
         IF (macro /\ r.level > MAX_LEVEL) \/ ~enabled(LOGGER, r)
         THEN UNCHANGED chan
         ELSE chan' = [chan EXCEPT ![LOGGER] =
                         Send(@, [line |-> Format(r), by |-> 0, id |-> 0])]
    /\ UNCHANGED << buildVars, facadeVars, buffer, locked, pc, inst, rec, todo,
                    guard, view, wr, ret, nops, delivered, drains, histB, histA >>

\* one next() on the iterator: the oldest queued line, or None at once
IterNextLive(t) ==
    /\ pc[t] = "iter"
    /\ LET got == TryRecv(chan[inst[t]]) IN
       IF got # None
       THEN /\ chan' = [chan EXCEPT ![inst[t]] = AfterRecv(@)]
            /\ UNCHANGED << pc, inst >>
       ELSE /\ pc' = [pc EXCEPT ![t] = "idle"]
            /\ inst' = [inst EXCEPT ![t] = 0]
            /\ UNCHANGED chan
    /\ UNCHANGED << buildVars, facadeVars, buffer, locked, rec, todo, guard,
                    view, wr, ret, nops, delivered, drains, histB, histA >>

\* one turn of dump's loop: none left: return Ok; else write the line and its
\* line break, or return the writer's error
DumpLoopLive(t) ==
    /\ pc[t] = "dump_loop"
    /\ LET got == TryRecv(chan[inst[t]]) IN
       IF got = None
       THEN /\ ret' = "Ok"
            /\ wr' = [wr EXCEPT ![t] = "none"]
            /\ pc' = [pc EXCEPT ![t] = "idle"]
            /\ inst' = [inst EXCEPT ![t] = 0]
            /\ UNCHANGED chan
       ELSE /\ chan' = [chan EXCEPT ![inst[t]] = AfterRecv(@)]
            /\ \/ UNCHANGED << ret, wr, pc, inst >>
               \/ /\ wr[t] \in IoErrors
                  /\ ret' = Propagate(wr[t])
                  /\ wr' = [wr EXCEPT ![t] = "none"]
                  /\ pc' = [pc EXCEPT ![t] = "idle"]
                  /\ inst' = [inst EXCEPT ![t] = 0]
    /\ UNCHANGED << buildVars, facadeVars, buffer, locked, rec, todo, guard,
                    view, nops, delivered, drains, histB, histA >>

NextALive ==
    \E t \in Threads :
        \/ Setup(t)
        \/ LogALive(t)
        \/ ReadA(t)
        \/ IterNextLive(t)
        \/ IterDrop(t)
        \/ DumpA(t)
        \/ DumpLoopLive(t)

\* the consumer's loop goes on as long as the thread runs
FairPulls == \A t \in Threads : WF_vars(IterNextLive(t) \/ DumpLoopLive(t))

SpecALive == InitA /\ [][NextALive]_vars /\ FairPulls

Next == NextB \/ NextA

Spec == Init /\ [][Next]_vars


(***************************************************************************)
(* The filter and the formatter on their own.  The state is the one right  *)
(* after a successful setup(L, P), for every level L and, with the target  *)
(* feature, the pattern P; a call applies Log::enabled, or the rendering   *)
(* Logger::log does, to any record and leaves call, record and result in   *)
(* ret.                                                                    *)
(***************************************************************************)
InitPure ==
    /\ flavor \in {"blocking", "asynchronous"}
    /\ feature \in BOOLEAN
    /\ LOGGER = 1
    /\ nsetup = 1
    /\ handle = 1
    /\ setupRes = [i \in Instances |-> IF i = 1 THEN "Ok" ELSE "none"]
    /\ setupAt = [i \in Instances |-> 0]
    /\ \E L \in Levels :
         /\ level = [i \in Instances |-> IF i = 1 THEN L ELSE Off]
         /\ MAX_LEVEL = to_level_filter(L)
    /\ \E P \in (IF feature THEN {Some(re) : re \in Regexes} ELSE {None}) :
         target = [i \in Instances |-> IF i = 1 THEN P ELSE None]
    /\ buffer = [i \in Instances |-> <<>>]
    /\ locked = [i \in Instances |-> FALSE]
    /\ chan = [i \in Instances |-> <<>>]
    /\ pc = [t \in Threads |-> "idle"]
    /\ inst = [t \in Threads |-> 0]
    /\ rec = [t \in Threads |-> NoRecord]
    /\ todo = [t \in Threads |-> <<>>]
    /\ guard = [t \in Threads |-> 0]
    /\ view = [t \in Threads |-> <<>>]
    /\ wr = [t \in Threads |-> "none"]
    /\ ret = [fn |-> "none", arg |-> NoRecord, val |-> FALSE]
    /\ nops = 1
    /\ delivered = <<>>
    /\ mark = 0
    /\ appended = <<>>
    /\ dumpedOk = <<>>
    /\ nWritten = 0
    /\ lastOut = <<>>
    /\ drains = 0
    /\ nclear = 0
    /\ sent = <<>>
    /\ yielded = <<>>
    /\ obs = <<>>

\* Log::enabled of the installed logger, called with a record's metadata
CallEnabled(t) ==
    /\ pc[t] = "idle"
    /\ \E r \in AllRecords :
         ret' = [fn |-> "enabled", arg |-> r, val |-> enabled(LOGGER, r)]
    /\ UNCHANGED << buildVars, facadeVars, buffer, locked, chan, pc, inst, rec,
                    todo, guard, view, wr, nops, delivered, drains, histB, histA >>

\* the text Logger::log makes of a record: writeln! into the buffer (with the
\* line break) in the blocking flavor, format! in the asynchronous one
CallFormat(t) ==
    /\ pc[t] = "idle"
    /\ \E r \in AllRecords :
         ret' = [fn |-> "format", arg |-> r,
                 val |-> IF flavor = "blocking"
                         THEN Flatten(WritelnPieces(r))
                         ELSE Format(r)]
    /\ UNCHANGED << buildVars, facadeVars, buffer, locked, chan, pc, inst, rec,
                    todo, guard, view, wr, nops, delivered, drains, histB, histA >>

NextPure == \E t \in Threads : CallEnabled(t) \/ CallFormat(t)

SpecPure == InitPure /\ [][NextPure]_vars


(***************************************************************************)
(* Properties.                                                             *)
(***************************************************************************)
\* the retention rule as the specification words it, for level L and pattern P
Retained(L, P, r) == r.level <= L /\ (P = None \/ is_match(P[1], r.target))

\* the records of a history that the first setup's level and pattern retain
RetainedOf(hist) ==
    LET Keep(r) == Retained(level[handle], target[handle], r)
    IN  SelectSeq(hist, Keep)

\* the formatted lines of a sequence of records
LinesOf(rs) == [k \in 1..Len(rs) |-> Format(rs[k])]

\* lines joined into one text, each followed by its line break
Joined(ls) == Flatten([k \in 1..Len(ls) |-> ls[k] \o <<"\n">>])

IsSuffix(x, s) == Len(x) <= Len(s) /\ SubSeq(s, Len(s) - Len(x) + 1, Len(s)) = x

IsSegment(x, s) ==
    \E i \in 0..(Len(s) - Len(x)) : SubSeq(s, i + 1, i + Len(x)) = x

RECURSIVE IsSubseq(_, _)
IsSubseq(x, s) ==
    IF x = <<>> THEN TRUE
    ELSE IF s = <<>> THEN FALSE
    ELSE IF Head(x) = Head(s) THEN IsSubseq(Tail(x), Tail(s))
    ELSE IsSubseq(x, Tail(s))

\* the threads in the middle of writeln!
Writers == {t \in Threads : pc[t] = "log_write"}

\* what the one thread in the middle of writeln! has still to append
Unwritten ==
    IF Writers = {} THEN <<>> ELSE Flatten(todo[CHOOSE t \in Writers : TRUE])

TakenIn ==
    IF flavor = "blocking"
    THEN CountNl(appended) + Cardinality(Writers)
    ELSE Len(yielded) + Len(chan[1])

\* C2: a setup after a successful setup returns the error as a value, the
\* facade keeps the first sink, and every record retained afterwards lands in
\* the first instance's store, none in a later instance's
C2_SecondSetupFails ==
    nsetup >= 1 =>
      /\ setupRes[1] = "Ok" /\ LOGGER = 1 /\ handle = 1
      /\ \A i \in 2..nsetup :
           /\ setupRes[i] = "Err"
           /\ buffer[i] = <<>> /\ chan[i] = <<>>
      /\ TakenIn = Len(RetainedOf(delivered))

\* C2 witness: the second setup failed before any record was delivered, and a
\* line logged after it was read through the first handle
C2_Witness ==
    /\ nsetup >= 2 /\ setupRes[2] = "Err" /\ setupAt[2] = 0
    /\ \/ \E t \in Threads : guard[t] = 1 /\ view[t] # <<>>
       \/ obs # <<>>


\* C3: in the asynchronous flavor lines leave the queue in the order they
\* entered it, so of two lines one producer sent, the earlier is drained first,
\* whatever the other producers and the consumer do in between
C3_Fifo ==
    (flavor = "asynchronous" /\ handle # 0) =>
      /\ yielded \o chan[handle] = sent
      /\ \A i, j \in 1..Len(sent) :
           (i < j /\ sent[i].by = sent[j].by) =>
             \A q \in 1..Len(yielded) :
               yielded[q].id = sent[j].id =>
                 \E p \in 1..(q - 1) : yielded[p].id = sent[i].id

\* C3 witness: two different lines of one producer were both drained
C3_Witness ==
    /\ flavor = "asynchronous"
    /\ Len(yielded) >= 2
    /\ yielded[1].by = yielded[2].by
    /\ yielded[1].line # yielded[2].line
    /\ yielded[1].id < yielded[2].id

\* the records retained since the buffer was last emptied
SinceClear == RetainedOf(SubSeq(delivered, mark + 1, Len(delivered)))

\* C4: in the blocking flavor the buffer is the complete lines retained since
\* the last clear/dump, in lock-acquisition order, each with its line break,
\* followed at most by the part written so far of the line whose writer holds
\* the lock; lines are never split or interleaved
C4_BufferIsWholeLines ==
    (flavor = "blocking" /\ handle # 0 /\ Cardinality(Writers) <= 1) =>
      buffer[handle] \o Unwritten = Joined(LinesOf(SinceClear))

\* C4 witness: one thread is in the middle of a line while another, logging a
\* retained record, waits for the lock, with a whole line already buffered
C4_Witness ==
    \E t, u \in Threads :
      /\ pc[t] = "log_write" /\ Len(todo[t]) \in 2..4
      /\ pc[u] = "log_lock" /\ guard[u] = 0
      /\ CountNl(buffer[handle]) >= 1

\* C5: in the asynchronous flavor, once an iterator returned None or a dump
\* returned Ok and nothing was sent since, the queue is empty and no step
\* yields a line or writes to a writer
C5_DrainIdempotent ==
    [][ (flavor = "asynchronous" /\ drains' >= 1) =>
          /\ chan'[handle'] = <<>>
          /\ (drains >= 1 /\ sent' = sent) =>
               /\ yielded' = yielded /\ obs' = obs
               /\ lastOut' = lastOut \/ lastOut' = <<>> ]_vars

\* C5 witness: lines were drained, then a second drain completed with nothing
\* sent in between
C5_Witness ==
    flavor = "asynchronous" /\ drains = 2 /\ Len(yielded) >= 1

\* C6: in the blocking flavor, after a dump returned Ok and with nothing
\* appended since, the buffer is empty: a read view shows nothing and a
\* further dump hands its writer nothing
C6_DumpClears ==
    (flavor = "blocking" /\ drains >= 1) =>
      /\ buffer[handle] = <<>>
      /\ \A t \in Threads : guard[t] # 0 => view[t] = <<>>
      /\ \A t \in Threads : pc[t] = "dump_clear" => lastOut = <<>>
      /\ drains = 2 => lastOut = <<>>

\* C6 witness: a dump wrote lines and returned Ok, then a second dump returned
\* Ok with nothing appended in between
C6_Witness ==
    flavor = "blocking" /\ drains = 2 /\ dumpedOk # <<>>


\* C7 as claimed: with no clear() and no dump between its write and its clear,
\* every line appended so far was handed to exactly one dump's writer or is
\* still in the buffer, never both (lines counted by their line breaks)
C7_Original ==
    (flavor = "blocking" /\ handle # 0 /\ nclear = 0
       /\ \A t \in Threads : pc[t] # "dump_clear") =>
      CountNl(appended) = nWritten + CountNl(buffer[handle])

\* C7 amended: with no clear(), everything ever appended is what the dumps
\* that returned Ok wrote, in order, followed by what the buffer still holds:
\* no line is lost by a dump's clear and none is written by two successful dumps
C7_DumpAtomic ==
    (flavor = "blocking" /\ handle # 0 /\ nclear = 0) =>
      appended = dumpedOk \o buffer[handle]

\* C7 witness: a dump has written a line and not yet cleared, while another
\* thread logging a retained record waits for the lock
C7_Witness ==
    \E t, u \in Threads :
      /\ pc[t] = "dump_clear" /\ lastOut # <<>>
      /\ pc[u] = "log_lock" /\ guard[u] = 0 /\ wr[u] # "logs"

\* C8: in the blocking flavor a dump whose writer fails returns the writer's
\* error, leaves the buffer as it was and the lock free; the buffer is cleared
\* by a dump only after write_all handed the writer all of it
C8_DumpFailureKeepsBuffer ==
    [][ \A t \in Threads :
          /\ (pc[t] = "dump_write" /\ pc'[t] = "idle") =>
               /\ ret' = wr[t] /\ wr[t] \in IoErrors
               /\ buffer' = buffer
               /\ CanLock(handle)'
          /\ (pc[t] = "dump_write" /\ pc'[t] = "dump_clear") =>
               /\ lastOut' = buffer[handle] /\ buffer' = buffer
          /\ (pc[t] = "dump_lock" /\ pc'[t] = "dump_write") => buffer' = buffer ]_vars

\* C8 witness: a dump failed, and a read taken afterwards shows the lines the
\* failed dump left in the buffer
C8_Witness ==
    \E u \in Threads :
      /\ ret \in IoErrors
      /\ guard[u] # 0 /\ view[u] # <<>> /\ lastOut # view[u]

\* the states in which a thread is inside Mutex::lock
LockWait == {"log_lock", "read_lock", "dump_lock", "clear_lock"}

\* thread t owns a guard of instance i's mutex: a live read view, a writeln!
\* or dump in progress, or a dump whose writer is inside a log call
HoldsLock(t, i) ==
    \/ guard[t] = i
    \/ pc[t] \in {"log_write", "dump_write", "dump_clear"} /\ inst[t] = i
    \/ pc[t] = "log_lock" /\ wr[t] = "logs" /\ handle = i

\* thread t asks for a lock it holds itself
Reentered(t) == pc[t] \in LockWait /\ HoldsLock(t, inst[t])

\* C9 as claimed: no thread ever asks for the buffer lock while it holds it
C9_Original == \A t \in Threads : ~Reentered(t)

\* C9 amended: a thread asks for the lock it holds only by calling log (with a
\* retained record), read, dump or clear while it holds a read view or from
\* inside a dump's writer, and then it waits for ever; every other waiting
\* thread waits for a holder that can go on or that has itself re-entered,
\* and the lock is never left held by nobody
C9_DeadlockOnlyByReentry ==
    flavor = "blocking" =>
      \A t \in Threads :
        /\ Reentered(t) => (guard[t] # 0 \/ wr[t] = "logs")
        /\ (pc[t] \in LockWait /\ ~CanLock(inst[t])) =>
             \E u \in Threads :
               /\ HoldsLock(u, inst[t])
               /\ \/ Reentered(u)
                  \/ pc[u] \in {"log_write", "dump_write", "dump_clear"}
                  \/ pc[u] = "idle" /\ guard[u] # 0

\* C9 witness: a thread holding a read view logged a retained record and waits
\* for its own lock, and a second thread waits behind it
C9_Witness ==
    \E t, u \in Threads :
      /\ t # u
      /\ guard[t] # 0 /\ pc[t] = "log_lock"
      /\ pc[u] \in LockWait /\ ~HoldsLock(u, inst[u])

\* C10: in the blocking flavor at most one thread holds the buffer lock, the
\* lock is held exactly while some thread holds it, nobody writes while a read
\* view is live, and the buffer stays what the view showed when it was taken
C10_MutualExclusion ==
    flavor = "blocking" =>
      \A i \in Instances :
        LET H == {t \in Threads : HoldsLock(t, i)} IN
        /\ Cardinality(H) <= 1
        /\ locked[i] <=> H # {}
        /\ \A t \in Threads : guard[t] = i => view[t] = buffer[i]

\* C10 witness: a read view with lines in it is live while another thread,
\* logging a retained record, waits for the lock
C10_Witness ==
    \E t, u \in Threads :
      /\ t # u
      /\ guard[t] # 0 /\ view[t] # <<>> /\ pc[t] = "idle"
      /\ pc[u] = "log_lock"

\* the threads in the middle of a drain (an iterator of read, or a dump)
Draining == {t \in Threads : pc[t] \in {"iter", "dump_loop"}}

\* C11: in the asynchronous flavor a thread that is not inside a call can
\* always log a retained record, whatever the queue holds and whatever the
\* other threads do (mid-drain or not): the step is there to take, and a log
\* step of a retained record puts exactly its line at the back of the queue
\* and leaves the caller ready for its next call
C11_AcceptNeverBlocks ==
    /\ [](flavor = "asynchronous" =>
            \A t \in Threads :
              (pc[t] = "idle" /\ LOGGER # 0 /\ nops < MaxOps) =>
                ENABLED (LogA(t) /\ Len(chan'[LOGGER]) = Len(chan[LOGGER]) + 1))
    /\ [][ (flavor = "asynchronous" /\ Len(delivered') > Len(delivered)
              /\ enabled(LOGGER, delivered'[Len(delivered')])) =>
             /\ Len(chan'[LOGGER]) = Len(chan[LOGGER]) + 1
             /\ SubSeq(chan'[LOGGER], 1, Len(chan[LOGGER])) = chan[LOGGER]
             /\ chan'[LOGGER][Len(chan'[LOGGER])].line = Format(delivered'[Len(delivered')])
             /\ pc' = pc ]_vars

\* C11 witness: a producer's second line is queued while another thread is in
\* the middle of a drain that already pulled the first
C11_Witness ==
    /\ flavor = "asynchronous"
    /\ \E u \in Draining :
         /\ Len(yielded) >= 1
         /\ Len(chan[handle]) >= 1
         /\ chan[handle][Len(chan[handle])].by # u

\* C12: in the asynchronous flavor a line that a read iterator or a dump took
\* from the queue is never handed out again: the entries handed out so far
\* (told apart by their serial numbers) are pairwise different, none of them
\* is still queued, and no more lines were shown than entries handed out
C12_NoLineTwice ==
    (flavor = "asynchronous" /\ handle # 0) =>
      /\ \A i, j \in 1..Len(yielded) : i # j => yielded[i].id # yielded[j].id
      /\ \A i \in 1..Len(yielded), k \in 1..Len(chan[handle]) :
           yielded[i].id # chan[handle][k].id
      /\ Len(obs) <= Len(yielded)
      /\ Len(yielded) <= Len(sent)

\* C12 witness: two records with the same text were accepted and each was
\* handed out once, after which the queue is empty
C12_Witness ==
    /\ flavor = "asynchronous"
    /\ Len(yielded) = 2
    /\ yielded[1].line = yielded[2].line
    /\ chan[handle] = <<>>

\* the drain thread t is in the middle of has come to its end
DrainOver(t) == pc[t] \notin {"iter", "dump_loop"}

\* some producer queues a line
SomeSend == \E i \in Instances : Len(chan'[i]) > Len(chan[i])

\* what one step may do to the queue and how a drain may end: what leaves the
\* queue is its oldest line, one per step; a dump returns Ok only from a pull
\* that found the queue empty; a draining thread's next pull is always there
\* to take, whatever the queue holds
PullsNeverWait ==
    /\ [](\A t \in Threads :
            ~DrainOver(t) => ENABLED (IterNextLive(t) \/ DumpLoopLive(t)))
    /\ [][ \A i \in Instances :
             /\ Len(chan'[i]) < Len(chan[i]) => chan'[i] = Tail(chan[i])
             /\ \A t \in Threads :
                  (pc[t] = "dump_loop" /\ pc'[t] = "idle" /\ ret' = "Ok"
                     /\ inst[t] = i) => chan[i] = <<>> /\ chan'[i] = <<>> ]_vars

\* C13 as claimed: pulls never wait, and every iteration and every dump comes
\* to its end, also while producers keep logging
C13_Original ==
    /\ PullsNeverWait
    /\ \A t \in Threads : ~DrainOver(t) ~> DrainOver(t)

\* C13 amended: pulls never wait, and every iteration and every dump comes to
\* its end unless producers go on queueing lines for ever
C13_DrainEndsWhenProducersPause ==
    /\ PullsNeverWait
    /\ \A t \in Threads :
         []<><<SomeSend>>_vars \/ (~DrainOver(t) ~> DrainOver(t))

\* C13 witness: a dump returned Ok, so its last pull found the queue empty,
\* and a producer has queued a line since while another drain is under way
C13_Witness ==
    /\ flavor = "asynchronous"
    /\ ret = "Ok"
    /\ handle # 0 /\ chan[handle] # <<>>
    /\ \E t \in Threads : ~DrainOver(t)

ExpectedTarget(r) ==
    IF r.target # <<>> THEN r.target
    ELSE IF r.module_path # None THEN r.module_path[1]
    ELSE <<"?">>

\* a name left-aligned in a field of five characters, filled with blanks
Field5(n) ==
    [k \in 1..(IF Len(n) > 5 THEN Len(n) ELSE 5) |-> IF k <= Len(n) THEN n[k] ELSE " "]

\* the line the specification prescribes: [<effective target>] <LEVEL> | <message>
ExpectedLine(r) ==
    <<"[">> \o ExpectedTarget(r) \o <<"]", " ">> \o Field5(LevelName(r.level))
    \o <<" ", "|", " ">> \o r.args

\* C15: the text made of a record is `[<effective target>] <LEVEL> | <message>`
\* with the target if it is not empty, else the module path, else "?", and the
\* level name in a field of five characters (`INFO `, `WARN `); the blocking
\* flavor appends it with one line break at its end, the asynchronous flavor
\* queues the same text without the line break
C15_LineFormat ==
    ret.fn = "format" =>
      LET r == ret.arg
          line == IF flavor = "blocking"
                  THEN SubSeq(ret.val, 1, Len(ret.val) - 1)
                  ELSE ret.val
      IN  /\ line = ExpectedLine(r)
          /\ flavor = "blocking" =>
               ret.val[Len(ret.val)] = "\n" /\ CountNl(ret.val) = 1
          /\ flavor = "asynchronous" => CountNl(ret.val) = 0
          /\ r.level = Info => IsSegment(<<"]", " ", "I", "N", "F", "O", " ", " ", "|", " ">>, line)
          /\ r.level = Warn => IsSegment(<<"]", " ", "W", "A", "R", "N", " ", " ", "|", " ">>, line)
          /\ (r.target = <<>> /\ r.module_path = None) => SubSeq(line, 1, 3) = <<"[", "?", "]">>

\* C15 witness: an Info record with an empty target and a module path was
\* rendered by the blocking flavor
C15_Witness ==
    /\ ret.fn = "format" /\ flavor = "blocking"
    /\ ret.arg.level = Info /\ ret.arg.target = <<>> /\ ret.arg.module_path = Some(ModM)
    /\ ret.val = <<"[", "m", "]", " ", "I", "N", "F", "O", " ", " ", "|", " ", "x", "\n">>

\* no dump was started so far: the buffer was emptied, if at all, by clear
NoDumpSoFar == ret = "none" /\ \A t \in Threads : wr[t] = "none"

\* C16: in the blocking flavor clear() empties the buffer while it has the
\* lock to itself and gives the lock back; from then on (no dump involved) the
\* buffer and every read view hold exactly the lines of the records retained
\* after the last clear, in full, and nothing accepted before it: right after
\* the clear, with nothing retained since, a read shows the empty text
C16_ClearEmptiesUnderLock ==
    /\ [][ \A t \in Threads :
             (pc[t] = "clear_lock" /\ pc'[t] = "idle") =>
               /\ \A u \in Threads : ~HoldsLock(u, handle)
               /\ buffer'[handle] = <<>>
               /\ CanLock(handle)'
               /\ nclear' = nclear + 1 ]_vars
    /\ []((flavor = "blocking" /\ nclear >= 1 /\ NoDumpSoFar
             /\ Cardinality(Writers) <= 1) =>
            /\ buffer[handle] \o Unwritten = Joined(LinesOf(SinceClear))
            /\ SinceClear = <<>> => buffer[handle] = <<>>
            /\ \A t \in Threads :
                 guard[t] = handle => view[t] = Joined(LinesOf(SinceClear)))

\* C16 witness: a line was retained, clear() ran, and a read view taken
\* afterwards shows the empty text
C16_Witness ==
    /\ flavor = "blocking" /\ nclear >= 1 /\ NoDumpSoFar
    /\ appended # <<>>
    /\ \E t \in Threads : guard[t] = handle /\ handle # 0 /\ view[t] = <<>>

\* C17: in the blocking flavor read() changes nothing: taking a view leaves
\* the buffer as it was and shows all of it, releasing the view leaves the
\* buffer as the view showed it, and between two reads the buffer changes
\* only by a log call's append, a dump's clear or a clear; so two reads with
\* none of these in between show the same text
C17_ReadLeavesBuffer ==
    [][ /\ \A t \in Threads :
             /\ (pc[t] = "read_lock" /\ pc'[t] = "idle") =>
                  /\ buffer' = buffer
                  /\ view'[t] = buffer[handle]
                  /\ appended' = appended
             /\ (guard[t] # 0 /\ guard'[t] = 0) =>
                  /\ buffer' = buffer
                  /\ buffer'[handle] = view[t]
        /\ buffer' # buffer =>
             \E t \in Threads :
               \/ pc[t] = "log_write"
               \/ pc[t] = "dump_clear" /\ pc'[t] = "idle"
               \/ pc[t] = "clear_lock" /\ pc'[t] = "idle" ]_vars

\* C17 witness: a thread holds a view of a buffer with a line in it while the
\* other thread has called read and waits for the lock
C17_Witness ==
    \E t, u \in Threads :
      /\ t # u
      /\ guard[t] # 0 /\ view[t] # <<>> /\ pc[t] = "idle"
      /\ pc[u] = "read_lock"

\* C18: in the asynchronous flavor a dump whose writer fails stops at once and
\* returns the writer's error; the line it had pulled for that write is gone
\* (not put back, not counted as shown), the lines behind it stay queued in
\* their order, and whatever a later read or dump pulls is the oldest of them;
\* no line pulled once is ever queued again
C18_AsyncDumpFailure ==
    /\ [][ /\ \A t \in Threads :
                (pc[t] = "dump_loop" /\ pc'[t] = "idle" /\ chan[handle] # <<>>) =>
                  /\ wr[t] \in IoErrors /\ ret' = wr[t]
                  /\ chan'[handle] = Tail(chan[handle])
                  /\ yielded' = Append(yielded, Head(chan[handle]))
                  /\ obs' = obs
                  /\ IsPrefix(lastOut, lastOut') /\ lastOut' # lastOut \o Head(chan[handle]).line \o <<"\n">>
           /\ yielded' # yielded =>
                /\ yielded' = Append(yielded, Head(chan[handle]))
                /\ chan'[handle] = Tail(chan[handle])
           /\ obs' # obs => obs' = Append(obs, Head(chan[handle]).line) ]_vars
    /\ [](flavor = "asynchronous" =>
            /\ Len(obs) <= Len(yielded)
            /\ \A k \in 1..Len(chan[1]) :
                 \A i \in 1..Len(yielded) : chan[1][k].id > yielded[i].id)

\* C18 witness: a dump failed on the first of two queued lines: it returned
\* the error, showed nothing, and the second line is still queued
C18_Witness ==
    /\ flavor = "asynchronous" /\ handle # 0
    /\ ret \in IoErrors
    /\ Len(sent) = 2 /\ Len(yielded) = 1 /\ obs = <<>>
    /\ chan[handle] = << sent[2] >>

\* C19: a setup that fails because a logger is installed leaves everything a
\* caller can see as it was: the installed logger and the handle, the facade's
\* max level (still the first setup's level), the first instance's level and
\* pattern and so the filter's answer to every record, and what the first
\* instance has buffered or queued
C19_FailedSetupChangesNothing ==
    /\ [][ (nsetup' > nsetup /\ LOGGER # 0) =>
             /\ setupRes'[nsetup'] = "Err"
             /\ LOGGER' = LOGGER /\ handle' = handle
             /\ MAX_LEVEL' = MAX_LEVEL
             /\ level'[LOGGER] = level[LOGGER] /\ target'[LOGGER] = target[LOGGER]
             /\ \A r \in AllRecords : enabled(LOGGER, r)' = enabled(LOGGER, r)
             /\ buffer' = buffer /\ chan' = chan /\ locked' = locked
             /\ guard' = guard /\ view' = view ]_vars
    /\ [](nsetup >= 1 => MAX_LEVEL = to_level_filter(level[1]) /\ LOGGER = 1)

\* C19 witness: with a line in the first instance's store, a second setup
\* asking for another level failed
C19_Witness ==
    /\ nsetup = 2 /\ setupRes[2] = "Err"
    /\ level[2] # level[1]
    /\ setupAt[2] >= 1
    /\ CountNl(buffer[1]) >= 1 \/ chan[1] # <<>>

\* the record delivered last
LastDelivered == delivered[Len(delivered)]

\* C20: in the blocking flavor the delivery of a record the filter rejects
\* touches neither the lock nor the buffer and leaves its caller where it
\* was, and a thread that is not inside a call can always log such a record,
\* also while the lock is held: by another thread's view or write, or by a
\* view of its own; only a log call with a retained record waits for the lock
C20_RejectedNeverLocks ==
    /\ [][ (flavor = "blocking" /\ Len(delivered') > Len(delivered)
              /\ ~enabled(LOGGER, LastDelivered')) =>
             /\ locked' = locked /\ buffer' = buffer /\ appended' = appended
             /\ pc' = pc /\ guard' = guard /\ todo' = todo ]_vars
    /\ [](flavor = "blocking" =>
            \A t \in Threads :
              (pc[t] = "idle" /\ LOGGER # 0 /\ nops < MaxOps
                 /\ \E r \in Records : ~enabled(LOGGER, r)) =>
                ENABLED (LogB(t) /\ Len(delivered') > Len(delivered)))
    /\ [](flavor = "blocking" =>
            \A t \in Threads : pc[t] = "log_lock" => enabled(inst[t], rec[t]))

\* C20 witness: a thread holds a read view, so the lock is held, and the
\* record delivered last, after a retained one, was rejected
C20_Witness ==
    /\ flavor = "blocking" /\ Len(delivered) >= 2
    /\ ~enabled(LOGGER, LastDelivered)
    /\ enabled(LOGGER, delivered[1])
    /\ \E t \in Threads : guard[t] = handle /\ locked[handle] /\ pc[t] = "idle"

=============================================================================
